---------------------------- MODULE Spec2Model ----------------------------
(***************************************************************************)
(* Model of the AI e-commerce listing optimizer front end:                 *)
(* the Extractor parseAnalysisFromText, the Inline Formatter               *)
(* formatAIResponseWithAsterisks, and the session of click handlers and    *)
(* generation requests around them.  Texts are sequences of one-character  *)
(* strings, so that the regular expressions of the source are evaluated    *)
(* character by character, as the JavaScript engine does.                  *)
(***************************************************************************)
EXTENDS Integers, Sequences, FiniteSets, TLC

VARIABLES
    doc,        \* the pieces the input text of the Extractor is made of
    text,       \* parseAnalysisFromText's argument
    analysis,   \* parseAnalysisFromText's result (ListingAnalysis)
    rawText,    \* formatAIResponseWithAsterisks's argument
    html,       \* formatAIResponseWithAsterisks's result
    pc,         \* "start", "extracted", "formatted", or the handler branch
                \* that ran last in the session
    currentAnalysis,   \* let currentAnalysis: ListingAnalysis | null
    originalListing,   \* let originalListing: string | null
    resultsContainer,  \* the content of the element #results-container
    disabledButtons,   \* the button elements whose disabled attribute is set
    requests,          \* the generateContent calls that have not completed
    issued,            \* the number of analyze requests issued so far
    derivedIssued,     \* the number of derived requests issued so far
    lastAnalyze        \* the most recent analyze action that returned text

\* currentFAQs (line 45) is assigned by displayFAQs and read nowhere: it has
\* no variable.

session == <<currentAnalysis, originalListing, resultsContainer, disabledButtons,
             requests, issued, derivedIssued, lastAnalyze>>

vars == <<doc, text, analysis, rawText, html, pc, currentAnalysis, originalListing,
          resultsContainer, disabledButtons, requests, issued, derivedIssued,
          lastAnalyze>>

(***************************************************************************)
(* Characters and character classes of the JavaScript regular expressions  *)
(***************************************************************************)
NL == "\n"
CR == "\r"
TAB == "\t"

\* \s
IsSpace(c) == c \in {" ", NL, CR, TAB}

\* what . does not match, and what ^ (flag m) follows
IsLineTerminator(c) == c \in {NL, CR}

Hash2 == <<"#", "#">>
Hash3 == <<"#", "#", "#">>
Hash4 == <<"#", "#", "#", "#">>
NoLit == << >>
OverallAssessmentLit == <<"O", "v", "e", "r", "a", "l", "l", " ", "A", "s", "s", "e", "s", "s", "m", "e", "n", "t">>
PriceAnalysisLit == <<"P", "r", "i", "c", "e", " ", "A", "n", "a", "l", "y", "s", "i", "s">>
TagsLit == <<"S", "u", "g", "g", "e", "s", "t", "e", "d", " ", "S", "E", "O", " ", "T", "a", "g", "s", " ", "(", "1", "3", ")">>
TagsEndLit == <<"S", "u", "g", "g", "e", "s", "t", "e", "d", " ", "S", "E", "O", " ", "T", "a", "g", "s">>
RecommendationsLit == <<"A", "c", "t", "i", "o", "n", "a", "b", "l", "e", " ", "R", "e", "c", "o", "m", "m", "e", "n", "d", "a", "t", "i", "o", "n", "s">>
ElementLit == <<"E", "l", "e", "m", "e", "n", "t", ":">>
SuggestionLit == <<"S", "u", "g", "g", "e", "s", "t", "i", "o", "n", ":">>
ReasoningLit == <<"R", "e", "a", "s", "o", "n", "i", "n", "g", ":">>

(***************************************************************************)
(* String primitives                                                       *)
(***************************************************************************)
\* s.substring(a - 1, b), with 1-based inclusive bounds
Slice(s, a, b) == IF a > b THEN << >> ELSE SubSeq(s, a, b)

\* the literal lit stands in s at position i
MatchLit(s, i, lit) ==
    /\ i >= 1
    /\ i + Len(lit) - 1 <= Len(s)
    /\ \A k \in 1..Len(lit) : s[i + k - 1] = lit[k]

\* \s* from position i (greedy): the first position that holds no whitespace
RECURSIVE SkipSpaces(_, _)
SkipSpaces(s, i) ==
    IF i <= Len(s) /\ IsSpace(s[i]) THEN SkipSpaces(s, i + 1) ELSE i

\* the position before which trailing whitespace starts
RECURSIVE SkipSpacesBack(_, _)
SkipSpacesBack(s, j) ==
    IF j >= 1 /\ IsSpace(s[j]) THEN SkipSpacesBack(s, j - 1) ELSE j

\* String.prototype.trim
Trim(s) == Slice(s, SkipSpaces(s, 1), SkipSpacesBack(s, Len(s)))

\* <pre>\s*<lit> matched at position i: the position after the match, 0 if none
PatEnd(s, i, pre, lit) ==
    IF ~MatchLit(s, i, pre) THEN 0
    ELSE LET j == SkipSpaces(s, i + Len(pre))
         IN  IF MatchLit(s, j, lit) THEN j + Len(lit) ELSE 0

\* the least element of a non-empty set of positions
Least(S) == CHOOSE x \in S : \A y \in S : x <= y

\* the leftmost position >= i where <pre>\s*<lit> matches, 0 if none
FindPat(s, i, pre, lit) ==
    LET hits == { k \in i..Len(s) : PatEnd(s, k, pre, lit) # 0 }
    IN  IF hits = {} THEN 0 ELSE Least(hits)

\* ([\s\S]*?)(?=\n<pre>\s*<lit>|$) from position i: the first position k >= i
\* at which the lookahead holds (the capture is s[i..k-1])
LazyEnd(s, i, pre, lit) ==
    Least({ k \in i..Len(s) : s[k] = NL /\ PatEnd(s, k + 1, pre, lit) # 0 }
          \cup { Len(s) + 1 })

\* (.*) from position i: the first position >= i holding a line terminator
LineEnd(s, i) ==
    Least({ k \in i..Len(s) : IsLineTerminator(s[k]) } \cup { Len(s) + 1 })

\* s.split('\n'): the pieces between the newlines found from position from on
RECURSIVE SplitLinesFrom(_, _)
SplitLinesFrom(s, from) ==
    LET cuts == { k \in from..Len(s) : s[k] = NL }
    IN  IF cuts = {} THEN << Slice(s, from, Len(s)) >>
        ELSE << Slice(s, from, Least(cuts) - 1) >> \o SplitLinesFrom(s, Least(cuts) + 1)

SplitLines(s) == SplitLinesFrom(s, 1)

\* Array.prototype.filter / map over sequences
RECURSIVE FilterNonEmpty(_)
FilterNonEmpty(ss) ==
    IF ss = << >> THEN << >>
    ELSE (IF Head(ss) = << >> THEN << >> ELSE << Head(ss) >>) \o FilterNonEmpty(Tail(ss))

(***************************************************************************)
(* parseAnalysisFromText                                                   *)
(***************************************************************************)
NoMatch == [found |-> FALSE, group1 |-> << >>]

\* text.match(/##\s*<lit>\s*([\s\S]*?)(?=\n##\s*<endLit>|$)/)
SectionMatch(s, lit, endLit) ==
    LET i == FindPat(s, 1, Hash2, lit)
    IN  IF i = 0 THEN NoMatch
        ELSE LET from == SkipSpaces(s, PatEnd(s, i, Hash2, lit))
                 to   == LazyEnd(s, from, Hash2, endLit)
             IN  [found |-> TRUE, group1 |-> Slice(s, from, to - 1)]

assessmentMatch(s) == SectionMatch(s, OverallAssessmentLit, NoLit)
priceMatch(s) == SectionMatch(s, PriceAnalysisLit, NoLit)
tagsMatch(s) == SectionMatch(s, TagsLit, NoLit)
recommendationsBlockMatch(s) == SectionMatch(s, RecommendationsLit, TagsEndLit)

TagLimit == 20

\* kw => kw.replace(/^-/, '').trim()
StripHyphen(kw) ==
    Trim(IF kw # << >> /\ Head(kw) = "-" THEN Tail(kw) ELSE kw)

\* mutant of Truncate: the tag is kept whole
Truncate_None(kw) == kw

\* kw => kw.substring(0, 20)
Truncate(kw) == Slice(kw, 1, IF Len(kw) < TagLimit THEN Len(kw) ELSE TagLimit)

\* .split('\n').map(strip).filter(Boolean).map(truncate)
suggested_keywords(body) ==
    LET lines    == SplitLines(body)
        stripped == [k \in 1..Len(lines) |-> StripHyphen(lines[k])]
        kept     == FilterNonEmpty(stripped)
    IN  [k \in 1..Len(kept) |-> Truncate(kept[k])]

\* ^ under flag m: position i is the start of a line
AtLineStart(r, i) == (i = 1) \/ IsLineTerminator(r[i - 1])

\* [...recommendationsText.matchAll(/^###\s*Element:\s*(.*)/gm)]: the matches
\* found from lastIndex on
RECURSIVE ElementMatchesFrom(_, _)
ElementMatchesFrom(r, lastIndex) ==
    LET hits == { k \in lastIndex..Len(r) :
                    AtLineStart(r, k) /\ PatEnd(r, k, Hash3, ElementLit) # 0 }
    IN  IF hits = {} THEN << >>
        ELSE LET i    == Least(hits)
                 from == SkipSpaces(r, PatEnd(r, i, Hash3, ElementLit))
                 to   == LineEnd(r, from)
             IN  << [index |-> i, end |-> to, group1 |-> Slice(r, from, to - 1)] >>
                 \o ElementMatchesFrom(r, to)

elementMatches(r) == ElementMatchesFrom(r, 1)

\* chunk.match(/####\s*Suggestion:\s*([\s\S]*?)(?=\n####\s*Reasoning:|$)/)
suggestionMatch(chunk) ==
    LET i == FindPat(chunk, 1, Hash4, SuggestionLit)
    IN  IF i = 0 THEN NoMatch
        ELSE LET from == SkipSpaces(chunk, PatEnd(chunk, i, Hash4, SuggestionLit))
                 to   == LazyEnd(chunk, from, Hash4, ReasoningLit)
             IN  [found |-> TRUE, group1 |-> Slice(chunk, from, to - 1)]

\* chunk.match(/####\s*Reasoning:\s*([\s\S]*)/)
reasoningMatch(chunk) ==
    LET i == FindPat(chunk, 1, Hash4, ReasoningLit)
    IN  IF i = 0 THEN NoMatch
        ELSE LET from == SkipSpaces(chunk, PatEnd(chunk, i, Hash4, ReasoningLit))
             IN  [found |-> TRUE, group1 |-> Slice(chunk, from, Len(chunk))]

\* mutant of ChunkEnd: every chunk runs to the end of the section
ChunkEnd_SectionEnd(r, matches, index) == Len(r) + 1

\* the end (exclusive) of the chunk of match number index
ChunkEnd(r, matches, index) ==
    IF index + 1 <= Len(matches) THEN matches[index + 1].index ELSE Len(r) + 1

\* the body of elementMatches.forEach: the items match number index pushes
RecommendationOf(r, matches, index) ==
    LET match      == matches[index]
        element    == Trim(match.group1)
        chunk      == Slice(r, match.end, ChunkEnd(r, matches, index) - 1)
        sm         == suggestionMatch(chunk)
        suggestion == IF sm.found THEN Trim(sm.group1) ELSE << >>
        rm         == reasoningMatch(chunk)
        reasoning  == IF rm.found THEN Trim(rm.group1) ELSE << >>
    IN  IF element # << >> /\ (suggestion # << >> \/ reasoning # << >>)
        THEN << [element |-> element, suggestion |-> suggestion, reasoning |-> reasoning] >>
        ELSE << >>

RECURSIVE RecommendationsFrom(_, _, _)
RecommendationsFrom(r, matches, index) ==
    IF index > Len(matches) THEN << >>
    ELSE RecommendationOf(r, matches, index) \o RecommendationsFrom(r, matches, index + 1)

recommendations(r) == RecommendationsFrom(r, elementMatches(r), 1)

EmptyAnalysis ==
    [overall_assessment |-> << >>, price_analysis |-> << >>,
     recommendations |-> << >>, suggested_keywords |-> << >>]

\* mutant of parseAnalysisFromText: the price analysis is filled from the
\* assessment match
parseAnalysisFromText_CopyPaste(s) ==
    LET am == assessmentMatch(s)
        tm == tagsMatch(s)
        rb == recommendationsBlockMatch(s)
    IN  [overall_assessment |-> IF am.found THEN Trim(am.group1) ELSE EmptyAnalysis.overall_assessment,
         price_analysis     |-> IF am.found THEN Trim(am.group1) ELSE EmptyAnalysis.price_analysis,
         suggested_keywords |-> IF tm.found THEN suggested_keywords(tm.group1)
                                ELSE EmptyAnalysis.suggested_keywords,
         recommendations    |-> IF rb.found THEN recommendations(rb.group1)
                                ELSE EmptyAnalysis.recommendations]

parseAnalysisFromText(s) ==
    LET am == assessmentMatch(s)
        pm == priceMatch(s)
        tm == tagsMatch(s)
        rb == recommendationsBlockMatch(s)
    IN  [overall_assessment |-> IF am.found THEN Trim(am.group1) ELSE EmptyAnalysis.overall_assessment,
         price_analysis     |-> IF pm.found THEN Trim(pm.group1) ELSE EmptyAnalysis.price_analysis,
         suggested_keywords |-> IF tm.found THEN suggested_keywords(tm.group1)
                                ELSE EmptyAnalysis.suggested_keywords,
         recommendations    |-> IF rb.found THEN recommendations(rb.group1)
                                ELSE EmptyAnalysis.recommendations]

(***************************************************************************)
(* formatAIResponseWithAsterisks                                           *)
(***************************************************************************)
Star2 == <<"*", "*">>
StrongOpen == <<"<", "s", "t", "r", "o", "n", "g", ">">>
StrongClose == <<"<", "/", "s", "t", "r", "o", "n", "g", ">">>
POpen == <<"<", "p", ">">>
PClose == <<"<", "/", "p", ">">>
Br == <<"<", "b", "r", ">">>

\* [^*]+ from position i (greedy): the first position >= i holding an asterisk
NextStar(s, i) ==
    Least({ k \in i..Len(s) : s[k] = "*" } \cup { Len(s) + 1 })

\* mutant of BoldAt: the inner text may be empty ([^*]* for [^*]+)
BoldAt_EmptyInner(s, i) ==
    /\ MatchLit(s, i, Star2)
    /\ MatchLit(s, NextStar(s, i + 2), Star2)

\* /\*\*([^*]+)\*\*/ matches at position i
BoldAt(s, i) ==
    /\ MatchLit(s, i, Star2)
    /\ NextStar(s, i + 2) > i + 2
    /\ MatchLit(s, NextStar(s, i + 2), Star2)

\* rawText.replace(/\*\*([^*]+)\*\*/g, '<strong>$1</strong>'), from lastIndex
RECURSIVE BoldFrom(_, _)
BoldFrom(s, lastIndex) ==
    LET hits == { k \in lastIndex..Len(s) : BoldAt(s, k) }
    IN  IF hits = {} THEN Slice(s, lastIndex, Len(s))
        ELSE LET i == Least(hits)
                 q == NextStar(s, i + 2)
             IN  Slice(s, lastIndex, i - 1)
                 \o StrongOpen \o Slice(s, i + 2, q - 1) \o StrongClose
                 \o BoldFrom(s, q + 2)

withBold(s) == BoldFrom(s, 1)

\* the position after a match of /\n\s*(?=\*)/ at position i, 0 if none
BulletSeparatorEnd(s, i) ==
    IF s[i] # NL THEN 0
    ELSE LET j == SkipSpaces(s, i + 1)
         IN  IF j <= Len(s) /\ s[j] = "*" THEN j ELSE 0

\* withBold.split(/\n\s*(?=\*)/): the pieces between the separators found
\* from position from on
RECURSIVE SplitBulletsFrom(_, _)
SplitBulletsFrom(s, from) ==
    LET hits == { k \in from..Len(s) : BulletSeparatorEnd(s, k) # 0 }
    IN  IF hits = {} THEN << Slice(s, from, Len(s)) >>
        ELSE << Slice(s, from, Least(hits) - 1) >>
             \o SplitBulletsFrom(s, BulletSeparatorEnd(s, Least(hits)))

paragraphs(s) == SplitBulletsFrom(s, 1)

\* content.replace(/\n/g, '<br>'), from position from on
RECURSIVE ReplaceNewlinesFrom(_, _)
ReplaceNewlinesFrom(s, from) ==
    LET hits == { k \in from..Len(s) : s[k] = NL }
    IN  IF hits = {} THEN Slice(s, from, Len(s))
        ELSE Slice(s, from, Least(hits) - 1) \o Br \o ReplaceNewlinesFrom(s, Least(hits) + 1)

ReplaceNewlines(s) == ReplaceNewlinesFrom(s, 1)

\* mutant of StripBullet: the whitespace after the marker is kept
StripBullet_NoTrim(content) ==
    IF content # << >> /\ Head(content) = "*" THEN Tail(content) ELSE content

\* the bullet marker of a trimmed chunk removed, with the whitespace after it
StripBullet(content) ==
    IF content # << >> /\ Head(content) = "*" THEN Trim(Tail(content)) ELSE content

\* mutant of htmlParagraph: the chunk is not wrapped in a paragraph
htmlParagraph_NoWrap(p) == ReplaceNewlines(StripBullet(Trim(p)))

\* the callback of paragraphs.map
htmlParagraph(p) == POpen \o ReplaceNewlines(StripBullet(Trim(p))) \o PClose

\* htmlParagraphs.join('')
RECURSIVE JoinParagraphs(_)
JoinParagraphs(ps) ==
    IF ps = << >> THEN << >>
    ELSE htmlParagraph(Head(ps)) \o JoinParagraphs(Tail(ps))

formatAIResponseWithAsterisks(s) ==
    IF s = << >> THEN << >> ELSE JoinParagraphs(paragraphs(withBold(s)))

(***************************************************************************)
(* The input texts of the Extractor: documents made of heading and body    *)
(* pieces, one piece per line group, joined by newlines.  The body of the  *)
(* piece at position k carries the number k, so that a captured value      *)
(* tells which pieces it was taken from.                                   *)
(***************************************************************************)
MaxSectionPieces == 4
MaxTagLines == 3
MaxRecPieces == 4

Digits == <<"0", "1", "2", "3", "4", "5", "6", "7", "8", "9">>
Num(k) == IF k < 10 THEN << Digits[k + 1] >> ELSE << Digits[(k \div 10) + 1], Digits[(k % 10) + 1] >>

OAHeading == <<"#", "#", " ", "O", "v", "e", "r", "a", "l", "l", " ", "A", "s", "s", "e", "s", "s", "m", "e", "n", "t">>
PAHeading == <<"#", "#", " ", "P", "r", "i", "c", "e", " ", "A", "n", "a", "l", "y", "s", "i", "s">>
RecsHeading == <<"#", "#", " ", "A", "c", "t", "i", "o", "n", "a", "b", "l", "e", " ", "R", "e", "c", "o", "m", "m", "e", "n", "d", "a", "t", "i", "o", "n", "s">>
TagsHeading == <<"#", "#", " ", "S", "u", "g", "g", "e", "s", "t", "e", "d", " ", "S", "E", "O", " ", "T", "a", "g", "s", " ", "(", "1", "3", ")">>
SubHeading == <<"#", "#", "#", " ", "D", "e", "t", "a", "i", "l", "s">>
ElTitleHeading == <<"#", "#", "#", " ", "E", "l", "e", "m", "e", "n", "t", ":", " ", "T", "i", "t", "l", "e">>
ElDescHeading == <<"#", "#", "#", " ", "E", "l", "e", "m", "e", "n", "t", ":", " ", "D", "e", "s", "c", "r", "i", "p", "t", "i", "o", "n">>
ElEmptyHeading == <<"#", "#", "#", " ", "E", "l", "e", "m", "e", "n", "t", ":">>
SuggHeading == <<"#", "#", "#", "#", " ", "S", "u", "g", "g", "e", "s", "t", "i", "o", "n", ":">>
ReasHeading == <<"#", "#", "#", "#", " ", "R", "e", "a", "s", "o", "n", "i", "n", "g", ":">>
NoteHeading == <<"#", "#", "#", "#", " ", "N", "o", "t", "e", ":">>
GreatListing == <<"G", "r", "e", "a", "t", " ", "l", "i", "s", "t", "i", "n", "g", ".">>
TagShortLine == <<"-", " ", "h", "a", "n", "d", "m", "a", "d", "e", " ", "w", "e", "d", "d", "i", "n", "g", " ", "s", "i", "g", "n">>
TagLongLine == <<"-", " ", "c", "u", "s", "t", "o", "m", " ", "w", "e", "l", "c", "o", "m", "e", " ", "d", "e", "c", "o", "r", " ", "e", "x", "t", "r", "e", "m", "e", "l", "y", " ", "l", "o", "n", "g", " ", "t", "a", "g", " ", "n", "a", "m", "e">>
TagIndentLine == <<" ", " ", "-", " ", "b", "o", "h", "o">>
TagPadLine == <<"-", " ", " ", "g", "i", "f", "t", " ", "i", "d", "e", "a", " ", " ">>
TitleLabel == <<"T", "i", "t", "l", "e">>
DescriptionLabel == <<"D", "e", "s", "c", "r", "i", "p", "t", "i", "o", "n">>

\* the body line of the piece at position k, marked by its letter and k
Body(letter, k) == << letter >> \o Num(k)

\* the text of piece p standing at position k of a document
PieceText(p, k) ==
    CASE p = "OA"        -> OAHeading
      [] p = "PA"        -> PAHeading
      [] p = "RECS"      -> RecsHeading
      [] p = "TAGS"      -> TagsHeading
      [] p = "SUB"       -> SubHeading
      [] p = "BODY"      -> Body("B", k)
      [] p = "GREAT"     -> GreatListing
      [] p = "EL_TITLE"  -> ElTitleHeading
      [] p = "EL_DESC"   -> ElDescHeading
      [] p = "EL_EMPTY"  -> ElEmptyHeading
      [] p = "SUGG"      -> SuggHeading \o << NL >> \o Body("S", k)
      [] p = "REAS"      -> ReasHeading \o << NL >> \o Body("R", k)
      [] p = "NOTE"      -> NoteHeading \o << NL >> \o Body("N", k)
      [] p = "PRICE_SEC" -> PAHeading \o << NL >> \o Body("P", k)
      [] p = "TAG_SHORT" -> TagShortLine
      [] p = "TAG_LONG"  -> TagLongLine
      [] p = "TAG_PAD"   -> TagPadLine
      [] p = "TAG_INDENT" -> TagIndentLine
      [] p = "TAG_BARE"  -> << "-" >>
      [] p = "TAG_BLANK" -> << " " >>

RECURSIVE RenderFrom(_, _)
RenderFrom(d, k) ==
    IF k > Len(d) THEN << >>
    ELSE PieceText(d[k], k) \o (IF k < Len(d) THEN << NL >> ELSE << >>) \o RenderFrom(d, k + 1)

Render(d) == RenderFrom(d, 1)

\* all sequences over S of length at most n
SeqsUpTo(S, n) == UNION { [1..m -> S] : m \in 0..n }

SectionPieces == {"OA", "PA", "RECS", "TAGS", "SUB", "BODY"}
TagPieces == {"TAG_SHORT", "TAG_LONG", "TAG_PAD", "TAG_INDENT", "TAG_BARE", "TAG_BLANK"}
RecPieces == {"EL_TITLE", "EL_DESC", "EL_EMPTY", "SUGG", "REAS", "NOTE", "PRICE_SEC"}

SectionDocs == SeqsUpTo(SectionPieces, MaxSectionPieces)
TagDocs == { << "TAGS" >> \o d : d \in SeqsUpTo(TagPieces, MaxTagLines) }
RecDocs == { << "RECS" >> \o d : d \in SeqsUpTo(RecPieces, MaxRecPieces) }

\* the examples of the specification and the document the prompt asks for
GreatDoc == << "OA", "GREAT" >>
TagsExampleDoc == << "TAGS", "TAG_SHORT", "TAG_LONG" >>
PromptDoc == << "OA", "BODY", "PA", "BODY", "RECS", "EL_TITLE", "SUGG", "REAS",
                "EL_DESC", "SUGG", "REAS", "TAGS", "TAG_SHORT", "TAG_LONG" >>
ExampleDocs == { GreatDoc, TagsExampleDoc, PromptDoc }

ExtractDocs == SectionDocs \cup TagDocs \cup RecDocs \cup ExampleDocs

(***************************************************************************)
(* The input fragments of the Formatter                                    *)
(***************************************************************************)
MaxFragLen == 7

FragChars == {"*", "a", " ", NL}
BoldExample == <<"*", "*", "B", "o", "l", "d", "*", "*", " ", "a", "n", "d", " ", "p", "l", "a", "i", "n">>
BulletExample == <<"I", "n", "t", "r", "o", " ", "l", "i", "n", "e", NL, "*", " ", "F", "i", "r", "s", "t", " ", "b", "u", "l", "l", "e", "t", NL, "*", " ", "S", "e", "c", "o", "n", "d", " ", "b", "u", "l", "l", "e", "t">>
ExampleFragments == { BoldExample, BulletExample }

\* fragments that carry markup of their own: "<b>x</b>" with text, a
\* marker or a line end before and after it
MarkupExample == <<"<", "b", ">", "x", "<", "/", "b", ">">>
Affixes == { << >>, << "a" >>, << " " >>, << NL >>, << "*" >>, << "*", "*" >> }
MarkupFragments == { f \o MarkupExample \o g : f \in Affixes, g \in Affixes }

FormatInputs == SeqsUpTo(FragChars, MaxFragLen) \cup ExampleFragments \cup MarkupFragments

(***************************************************************************)
(* The session: the two values the handlers share, the results area, the   *)
(* buttons and the generation requests in flight                           *)
(***************************************************************************)
\* null, for currentAnalysis and for originalListing
NullAnalysis == [null |-> TRUE]
NullListing == << "null" >>

\* the actions of the user and the button elements.  The Analyze button is
\* created once; the three buttons of the Next Steps are created anew by
\* every displayResults, so an element is told by the analyze request
\* whose result it was rendered with.
DerivedActions == {"ab", "promo", "faq"}
GenerateBtn == [action |-> "analyze", render |-> 0]
DerivedBtn(a, r) == [action |-> a, render |-> r]

\* the messages of displayError
NoListingMessage == "Please paste your product listing to get started."
EmptyResponseMessage == "The AI returned an empty response. Please try again."
UnexpectedErrorMessage == "An unexpected error occurred. Please check your API key and try again."
ABTestErrorMessage == "Sorry, there was an error generating A/B tests."
PromoErrorMessage == "Sorry, there was an error generating promotional content."
FAQErrorMessage == "Sorry, there was an error generating FAQs."

DerivedErrorMessage(a) ==
    CASE a = "ab" -> ABTestErrorMessage
      [] a = "promo" -> PromoErrorMessage
      [] a = "faq" -> FAQErrorMessage

\* resultsContainer.innerHTML = ''
EmptyContainer ==
    [kind |-> "empty", message |-> "", render |-> 0, hidden |-> {}, extra |-> << >>]

\* mutant of displayError: nothing is shown
displayError_Silent(message) == EmptyContainer

\* the results area after displayError: the message and nothing else
displayError(message) ==
    [kind |-> "error", message |-> message, render |-> 0, hidden |-> {}, extra |-> << >>]

\* the results area after displayResults for the analyze request id: the
\* sections of the analysis, the three buttons of renderNextSteps, all
\* shown, and an empty #extra-tools-results
resultsOf(id) ==
    [kind |-> "results", message |-> "", render |-> id, hidden |-> {}, extra |-> << >>]

\* mutant of attachSources: the sources are dropped
attachSources_None(a, sources) ==
    [overall_assessment |-> a.overall_assessment, price_analysis |-> a.price_analysis,
     recommendations |-> a.recommendations, suggested_keywords |-> a.suggested_keywords,
     sources |-> << >>]

\* analysis.sources = sources
attachSources(a, sources) ==
    [overall_assessment |-> a.overall_assessment, price_analysis |-> a.price_analysis,
     recommendations |-> a.recommendations, suggested_keywords |-> a.suggested_keywords,
     sources |-> sources]

\* mutant of setButtonLoading: the button is never enabled again
setButtonLoading_Stuck(disabled, button, isLoading) == disabled \cup { button }

\* button.disabled = isLoading
setButtonLoading(disabled, button, isLoading) ==
    IF isLoading THEN disabled \cup { button } ELSE disabled \ { button }

\* document.getElementById('extra-tools-results') finds an element
HasExtraToolsResults(container) == container.kind = "results"

\* displayABTests, displayPromoContent, displayFAQs: container.prepend(...),
\* nothing when #extra-tools-results is not in the document
displayDerived(container, item) ==
    IF HasExtraToolsResults(container)
    THEN [container EXCEPT !.extra = << item >> \o @]
    ELSE container

\* button.style.display = 'none'; an element that is no longer in the
\* document changes nothing of the results area
hideButton(container, button) ==
    IF container.kind = "results" /\ container.render = button.render
    THEN [container EXCEPT !.hidden = @ \cup { button.action }]
    ELSE container

\* mutant of derivedFailure: the error is caught and nothing is displayed
derivedFailure_Swallowed(container, a) == container

\* the catch branch of a derived handler
derivedFailure(container, a) == displayError(DerivedErrorMessage(a))

\* the button of action a is in the document, shown and enabled: a click
\* on it runs its handler
Clickable(a) ==
    /\ resultsContainer.kind = "results"
    /\ a \notin resultsContainer.hidden
    /\ DerivedBtn(a, resultsContainer.render) \notin disabledButtons

\* mutant of trimmedListing: the value is taken as typed
trimmedListing_AsTyped(value) == value

\* listingInput.value.trim()
trimmedListing(value) == Trim(value)

\* the condition of the early return of a derived handler
returnsEarly(a) ==
    \/ currentAnalysis = NullAnalysis
    \/ (a = "ab" /\ originalListing \in { NullListing, << >> })

\* the analyze requests and the derived requests of a session are bounded
MaxAnalyses == 2
MaxDerived == 2

\* what the user types, what the generation service returns
ListingInputs == { << " ", " " >>, << " ", "m", "u", "g", " " >>, << "s", "i", "g", "n" >> }
WebSource1 == [uri |-> "https://example.com/sign", title |-> "Welcome sign"]
Responses ==
    { [text |-> << >>, sources |-> << >>],
      [text |-> Render(GreatDoc), sources |-> << >>],
      [text |-> Render(PromptDoc), sources |-> << WebSource1 >>] }
Outcomes == { "ok", "rejected", "unparsable" }

\* parseAnalysisFromText(content) for each text the service returns,
\* evaluated once
Parsed == [content \in { response.text : response \in Responses } |-> parseAnalysisFromText(content)]

NoAnalyze == [id |-> 0, listing |-> NullListing, content |-> << >>, sources |-> << >>]

InitSessionState ==
    /\ currentAnalysis = NullAnalysis
    /\ originalListing = NullListing
    /\ resultsContainer = EmptyContainer
    /\ disabledButtons = {}
    /\ requests = {}
    /\ issued = 0
    /\ derivedIssued = 0
    /\ lastAnalyze = NoAnalyze

(***************************************************************************)
(* Specifications: each pure function is applied once to an input drawn    *)
(* from its input set.                                                     *)
(***************************************************************************)
InitExtract ==
    /\ doc \in ExtractDocs
    /\ text = Render(doc)
    /\ analysis = EmptyAnalysis
    /\ rawText = << >>
    /\ html = << >>
    /\ pc = "start"
    /\ InitSessionState

\* const analysis = parseAnalysisFromText(content)
Extract ==
    /\ pc = "start"
    /\ analysis' = parseAnalysisFromText(text)
    /\ pc' = "extracted"
    /\ UNCHANGED <<doc, text, rawText, html>>
    /\ UNCHANGED session

NextExtract == Extract

SpecExtract == InitExtract /\ [][NextExtract]_vars

InitFormat ==
    /\ doc = << >>
    /\ text = << >>
    /\ analysis = EmptyAnalysis
    /\ rawText \in FormatInputs
    /\ html = << >>
    /\ pc = "start"
    /\ InitSessionState

\* ${formatAIResponseWithAsterisks(...)}
Format ==
    /\ pc = "start"
    /\ html' = formatAIResponseWithAsterisks(rawText)
    /\ pc' = "formatted"
    /\ UNCHANGED <<doc, text, analysis, rawText>>
    /\ UNCHANGED session

NextFormat == Format

SpecFormat == InitFormat /\ [][NextFormat]_vars

(***************************************************************************)
(* The session.  A handler runs to its await in one step and from the      *)
(* completion of its request to its end in another; the steps of           *)
(* different handlers interleave.                                          *)
(***************************************************************************)
InitSession ==
    /\ doc = << >>
    /\ text = << >>
    /\ analysis = EmptyAnalysis
    /\ rawText = << >>
    /\ html = << >>
    /\ pc = "start"
    /\ InitSessionState

\* a click on the Analyze button with value in the text area: the handler
\* up to the early return or to the await
handleInitialGeneration(value) ==
    /\ GenerateBtn \notin disabledButtons
    /\ trimmedListing(value) # << >> => issued < MaxAnalyses
    /\ originalListing' = trimmedListing(value)
    /\ IF trimmedListing(value) = << >>
       THEN /\ resultsContainer' = displayError(NoListingMessage)
            /\ pc' = "no_listing"
            /\ UNCHANGED <<disabledButtons, requests, issued>>
       ELSE /\ disabledButtons' = setButtonLoading(disabledButtons, GenerateBtn, TRUE)
            /\ resultsContainer' = EmptyContainer
            /\ issued' = issued + 1
            /\ requests' = requests \cup
                  { [button |-> GenerateBtn, id |-> issued + 1,
                     listing |-> trimmedListing(value), from |-> 0] }
            /\ pc' = "analyze_issued"
    /\ UNCHANGED <<currentAnalysis, lastAnalyze, derivedIssued, doc, text, analysis, rawText, html>>

\* the analyze request r completes, rejected or with content and sources:
\* the handler from the await to its end
handleInitialGenerationResumes(r, outcome, content, sources) ==
    /\ r \in requests
    /\ r.button = GenerateBtn
    /\ IF outcome = "rejected"
       THEN /\ resultsContainer' = displayError(UnexpectedErrorMessage)
            /\ pc' = "analyze_failed"
            /\ UNCHANGED <<currentAnalysis, lastAnalyze, text, analysis>>
       ELSE IF content # << >>
       THEN /\ text' = content
            /\ analysis' = Parsed[content]
            /\ currentAnalysis' = attachSources(Parsed[content], sources)
            /\ resultsContainer' = resultsOf(r.id)
            /\ lastAnalyze' = [id |-> r.id, listing |-> r.listing,
                               content |-> content, sources |-> sources]
            /\ pc' = "analyze_displayed"
       ELSE /\ resultsContainer' = displayError(EmptyResponseMessage)
            /\ pc' = "analyze_empty"
            /\ UNCHANGED <<currentAnalysis, lastAnalyze, text, analysis>>
    /\ disabledButtons' = setButtonLoading(disabledButtons, GenerateBtn, FALSE)
    /\ requests' = requests \ { r }
    /\ UNCHANGED <<originalListing, issued, derivedIssued, doc, rawText, html>>

\* a click on the button of the derived action a: the handler up to the
\* early return or to the await
DerivedClick(a) ==
    /\ Clickable(a)
    /\ ~returnsEarly(a) => derivedIssued < MaxDerived
    /\ IF returnsEarly(a)
       THEN /\ pc' = "returned"
            /\ UNCHANGED <<disabledButtons, requests, derivedIssued>>
       ELSE /\ disabledButtons' =
                  setButtonLoading(disabledButtons, DerivedBtn(a, resultsContainer.render), TRUE)
            /\ requests' = requests \cup
                  { [button |-> DerivedBtn(a, resultsContainer.render), id |-> 0,
                     listing |-> originalListing, from |-> lastAnalyze.id] }
            /\ derivedIssued' = derivedIssued + 1
            /\ pc' = "derived_issued"
    /\ UNCHANGED <<currentAnalysis, originalListing, resultsContainer, issued, lastAnalyze,
                   doc, text, analysis, rawText, html>>

\* the request r of the derived action a completes: the handler from the
\* await to its end
DerivedResumes(a, r, outcome) ==
    /\ r \in requests
    /\ r.button.action = a
    /\ IF outcome = "ok"
       THEN /\ resultsContainer' =
                  hideButton(displayDerived(resultsContainer, [kind |-> a, from |-> r.from]),
                             r.button)
            /\ pc' = "derived_displayed"
       ELSE /\ resultsContainer' = derivedFailure(resultsContainer, a)
            /\ pc' = "derived_failed"
    /\ disabledButtons' = setButtonLoading(disabledButtons, r.button, FALSE)
    /\ requests' = requests \ { r }
    /\ UNCHANGED <<currentAnalysis, originalListing, issued, derivedIssued, lastAnalyze,
                   doc, text, analysis, rawText, html>>

AnalyzeClick == \E value \in ListingInputs : handleInitialGeneration(value)

AnalyzeResumes ==
    \E r \in requests, outcome \in {"ok", "rejected"}, response \in Responses :
        handleInitialGenerationResumes(r, outcome, response.text, response.sources)

handleABTestGeneration == DerivedClick("ab")
handlePromoGeneration == DerivedClick("promo")
handleFAQGeneration == DerivedClick("faq")

ABTestResumes == \E r \in requests, outcome \in Outcomes : DerivedResumes("ab", r, outcome)
PromoResumes == \E r \in requests, outcome \in Outcomes : DerivedResumes("promo", r, outcome)
FAQResumes == \E r \in requests, outcome \in Outcomes : DerivedResumes("faq", r, outcome)

NextSession ==
    \/ AnalyzeClick
    \/ AnalyzeResumes
    \/ handleABTestGeneration
    \/ ABTestResumes
    \/ handlePromoGeneration
    \/ PromoResumes
    \/ handleFAQGeneration
    \/ FAQResumes

SpecSession == InitSession /\ [][NextSession]_vars

\* the button elements of a session
Buttons == { GenerateBtn } \cup { DerivedBtn(a, id) : a \in DerivedActions, id \in 1..MaxAnalyses }

\* the request issued by the click on button b completes
Completes(b) ==
    \/ /\ b = GenerateBtn
       /\ \E r \in requests, outcome \in {"ok", "rejected"}, response \in Responses :
             /\ r.button = b
             /\ handleInitialGenerationResumes(r, outcome, response.text, response.sources)
    \/ /\ b.action \in DerivedActions
       /\ \E r \in requests, outcome \in Outcomes :
             /\ r.button = b
             /\ DerivedResumes(b.action, r, outcome)

\* every request completes in the end: the promise of generateContent is
\* settled, fulfilled or rejected
SpecSessionLive ==
    /\ SpecSession
    /\ \A b \in Buttons : WF_vars(Completes(b))

(***************************************************************************)
(* Vocabulary of the properties                                            *)
(***************************************************************************)
\* lit occurs somewhere in s
Contains(s, lit) == \E i \in 1..Len(s) : MatchLit(s, i, lit)

\* a level-2 heading of the given name occurs in s: "##", optional
\* whitespace, the name
HeadingOccurs(s, name) ==
    \E j \in 1..Len(s) :
        /\ MatchLit(s, j, name)
        /\ \E i \in 1..(j - 1) :
              /\ MatchLit(s, i, Hash2)
              /\ \A k \in (i + 2)..(j - 1) : IsSpace(s[k])

Extracted == pc = "extracted"
Formatted == pc = "formatted"

\* the pieces a..b of document d as they stand in the text
RECURSIVE RenderRange(_, _, _)
RenderRange(d, a, b) ==
    IF a > b THEN << >>
    ELSE PieceText(d[a], a) \o (IF a < b THEN << NL >> ELSE << >>) \o RenderRange(d, a + 1, b)

\* the positions of a set in increasing order
RECURSIVE Ascending(_)
Ascending(S) ==
    IF S = {} THEN << >> ELSE << Least(S) >> \o Ascending(S \ { Least(S) })

(***************************************************************************)
(* C1                                                                      *)
(***************************************************************************)
\* C1: for every input text, the empty one included, the Extractor returns
\* an analysis in which every field whose heading does not occur in the
\* text has its default value, whatever other headings are present; a
\* text with no recognized heading yields the four defaults.
C1_AbsentSectionsDefault ==
    Extracted =>
        /\ ~HeadingOccurs(text, OverallAssessmentLit) => analysis.overall_assessment = << >>
        /\ ~HeadingOccurs(text, PriceAnalysisLit) => analysis.price_analysis = << >>
        /\ ~HeadingOccurs(text, RecommendationsLit) => analysis.recommendations = << >>
        /\ ~HeadingOccurs(text, TagsLit) => analysis.suggested_keywords = << >>
        /\ (\A k \in 1..Len(doc) : doc[k] \in {"BODY", "SUB"}) => analysis = EmptyAnalysis

\* the text "## Overall Assessment\nGreat listing." is extracted: the
\* assessment is "Great listing." and the other three fields are defaults
C1_Witness ==
    /\ Extracted
    /\ doc = GreatDoc
    /\ HeadingOccurs(text, OverallAssessmentLit)
    /\ ~HeadingOccurs(text, PriceAnalysisLit)
    /\ analysis = [EmptyAnalysis EXCEPT !.overall_assessment = GreatListing]

(***************************************************************************)
(* C2                                                                      *)
(***************************************************************************)
IsElementPiece(p) == p \in {"EL_TITLE", "EL_DESC"}
LabelOf(p) == IF p = "EL_TITLE" THEN TitleLabel ELSE DescriptionLabel

\* a Recommendations section made of labelled Element headings and
\* Suggestion, Reasoning and other level-4 parts only
IsBlocksDoc(d) ==
    /\ Len(d) >= 1
    /\ d[1] = "RECS"
    /\ \A k \in 2..Len(d) : d[k] \in {"EL_TITLE", "EL_DESC", "SUGG", "REAS", "NOTE"}

\* the last piece of the block whose Element heading is piece e
BlockLast(d, e) ==
    LET later == { k \in (e + 1)..Len(d) : IsElementPiece(d[k]) }
    IN  IF later = {} THEN Len(d) ELSE Least(later) - 1

BlockPieces(d, e) == (e + 1)..BlockLast(d, e)
BlockShape(d, e) == [k \in 1..(BlockLast(d, e) - e) |-> d[e + k]]
BlockHas(d, e, p) == \E k \in BlockPieces(d, e) : d[k] = p

\* the Element headings whose block holds a Suggestion or a Reasoning
Contributing(d) ==
    Ascending({ e \in 1..Len(d) :
                  IsElementPiece(d[e]) /\ (BlockHas(d, e, "SUGG") \/ BlockHas(d, e, "REAS")) })

\* s holds the body of the piece at position k
Mentions(s, k) ==
    \/ Contains(s, Body("S", k))
    \/ Contains(s, Body("R", k))
    \/ Contains(s, Body("N", k))
    \/ Contains(s, Body("P", k))

\* C2: in a Recommendations section made of Element blocks, the items
\* follow the order of the Element headings, suggestion and reasoning of an
\* item come from its own block only, and a block with only a Suggestion or
\* only a Reasoning still gives an item whose other part is empty.
C2_BlocksInOrderFromOwnBlock ==
    (Extracted /\ IsBlocksDoc(doc)) =>
        LET recs == analysis.recommendations
            from == Contributing(doc)
        IN  /\ Len(recs) = Len(from)
            /\ \A n \in 1..Len(from) :
                  LET e == from[n]
                  IN  /\ recs[n].element = LabelOf(doc[e])
                      /\ \A k \in 1..Len(doc) :
                            (Mentions(recs[n].suggestion, k) \/ Mentions(recs[n].reasoning, k))
                                => k \in BlockPieces(doc, e)
                      /\ ~BlockHas(doc, e, "REAS") =>
                            (recs[n].reasoning = << >> /\ recs[n].suggestion # << >>)
                      /\ ~BlockHas(doc, e, "SUGG") =>
                            (recs[n].suggestion = << >> /\ recs[n].reasoning # << >>)
                      /\ BlockShape(doc, e) = << "SUGG" >> =>
                            recs[n].suggestion = Body("S", e + 1)
                      /\ BlockShape(doc, e) = << "REAS" >> =>
                            recs[n].reasoning = Body("R", e + 1)
                      /\ BlockShape(doc, e) = << "SUGG", "REAS" >> =>
                            /\ recs[n].suggestion = Body("S", e + 1)
                            /\ recs[n].reasoning = Body("R", e + 2)

\* a "Title" block with only a Suggestion, then a "Description" block with
\* only a Reasoning, are extracted as two items in that order
C2_Witness ==
    /\ Extracted
    /\ doc = << "RECS", "EL_TITLE", "SUGG", "EL_DESC", "REAS" >>
    /\ analysis.recommendations =
          << [element |-> TitleLabel, suggestion |-> Body("S", 3), reasoning |-> << >>],
             [element |-> DescriptionLabel, suggestion |-> << >>, reasoning |-> Body("R", 5)] >>

(***************************************************************************)
(* C3                                                                      *)
(***************************************************************************)
\* a Recommendations section whose pieces are drawn from the block pieces,
\* Element headings without a label included
IsRecsDoc(d) ==
    /\ Len(d) >= 1
    /\ d[1] = "RECS"
    /\ \A k \in 2..Len(d) : d[k] \in RecPieces

\* C3: the element of an item is the trimmed remainder of its own Element
\* heading line, and a block whose heading line has no label gives no item
\* even when Suggestion or Reasoning bodies follow: every item carries one
\* of the labels written on the heading lines, and a non-empty part.
C3_LabelFromOwnHeadingLine ==
    (Extracted /\ IsRecsDoc(doc)) =>
        \A n \in 1..Len(analysis.recommendations) :
            LET item == analysis.recommendations[n]
            IN  /\ item.element \in {TitleLabel, DescriptionLabel}
                /\ (item.suggestion # << >> \/ item.reasoning # << >>)

(***************************************************************************)
(* C4                                                                      *)
(***************************************************************************)
HandmadeTag == <<"h", "a", "n", "d", "m", "a", "d", "e", " ", "w", "e", "d", "d", "i", "n", "g", " ", "s", "i", "g">>
CustomTag == <<"c", "u", "s", "t", "o", "m", " ", "w", "e", "l", "c", "o", "m", "e", " ", "d", "e", "c", "o", "r">>
BohoTag == <<"b", "o", "h", "o">>
HyphenBohoTag == <<"-", " ", "b", "o", "h", "o">>
GiftTag == <<"g", "i", "f", "t", " ", "i", "d", "e", "a">>

\* a Suggested SEO Tags section made of tag lines
IsTagsDoc(d) ==
    /\ Len(d) >= 1
    /\ d[1] = "TAGS"
    /\ \A k \in 2..Len(d) : d[k] \in TagPieces

\* the body of the section starts at line k: only blank lines stand
\* between the heading and it
StartsBody(d, k) == \A m \in 2..(k - 1) : d[m] = "TAG_BLANK"

\* the tag line k gives: a hyphen standing first on the line stripped, the
\* rest trimmed, cut to 20 characters; nothing for a line that is blank
\* after that.  The hyphen of an indented line does not stand first and is
\* kept, unless the line starts the body (the body starts at the first
\* character that is no whitespace).
TagOfLine(d, k) ==
    CASE d[k] = "TAG_SHORT"  -> << HandmadeTag >>
      [] d[k] = "TAG_LONG"   -> << CustomTag >>
      [] d[k] = "TAG_PAD"    -> << GiftTag >>
      [] d[k] = "TAG_INDENT" -> IF StartsBody(d, k) THEN << BohoTag >> ELSE << HyphenBohoTag >>
      [] OTHER               -> << >>

RECURSIVE TagsOfLines(_, _)
TagsOfLines(d, k) ==
    IF k > Len(d) THEN << >> ELSE TagOfLine(d, k) \o TagsOfLines(d, k + 1)

\* C4: the keywords are the lines of the Suggested SEO Tags body, hyphen
\* stripped, trimmed, blank ones dropped, cut to 20 characters, in line
\* order; every keyword of every result is non-empty and at most 20
\* characters long, and their number is whatever the section holds.
C4_TagsPerLineTruncated ==
    Extracted =>
        /\ \A n \in 1..Len(analysis.suggested_keywords) :
              /\ analysis.suggested_keywords[n] # << >>
              /\ Len(analysis.suggested_keywords[n]) <= 20
        /\ IsTagsDoc(doc) => analysis.suggested_keywords = TagsOfLines(doc, 2)

\* the two tag lines of the specification's example are extracted: both are
\* cut to 20 characters, in line order, and there are 2 tags, not 13
C4_Witness ==
    /\ Extracted
    /\ doc = TagsExampleDoc
    /\ Len(TagLongLine) > 20
    /\ analysis.suggested_keywords = << HandmadeTag, CustomTag >>

(***************************************************************************)
(* C5                                                                      *)
(***************************************************************************)
IsLevel2Piece(p) == p \in {"OA", "PA", "RECS", "TAGS"}

IsSectionsDoc(d) == \A k \in 1..Len(d) : d[k] \in SectionPieces

FirstPiece(d, p) == Least({ k \in 1..Len(d) : d[k] = p })

\* the body of the first section headed by piece p: the lines after the
\* heading up to the next level-2 heading or the end of the text, trimmed
SectionBody(d, p) ==
    LET h     == FirstPiece(d, p)
        later == { k \in (h + 1)..Len(d) : IsLevel2Piece(d[k]) }
        last  == IF later = {} THEN Len(d) ELSE Least(later) - 1
    IN  Trim(RenderRange(d, h + 1, last))

\* the first section headed by piece p starts with a body line
HasBody(d, p) ==
    /\ \E k \in 1..Len(d) : d[k] = p
    /\ FirstPiece(d, p) < Len(d)
    /\ d[FirstPiece(d, p) + 1] = "BODY"

\* C5: overallAssessment and priceAnalysis are the full trimmed body between
\* their heading and the next level-2 heading or the end of the text; lines
\* with a deeper heading marker stay part of the value.
\* (Checked on the sections whose heading is followed by a body line.)
C5_BodyUpToNextLevel2Heading ==
    (Extracted /\ IsSectionsDoc(doc)) =>
        /\ HasBody(doc, "OA") => analysis.overall_assessment = SectionBody(doc, "OA")
        /\ HasBody(doc, "PA") => analysis.price_analysis = SectionBody(doc, "PA")

(***************************************************************************)
(* C6                                                                      *)
(***************************************************************************)
\* C6: the Recommendations section ends at the first level-2 heading after
\* it, whatever it is: nothing of a Price Analysis section placed after the
\* recommendations shows in the suggestion or reasoning of an item.
C6_RecommendationsEndAtNextLevel2 ==
    (Extracted /\ IsRecsDoc(doc)) =>
        \A n \in 1..Len(analysis.recommendations) :
            LET item == analysis.recommendations[n]
            IN  /\ ~Contains(item.suggestion, PriceAnalysisLit)
                /\ ~Contains(item.reasoning, PriceAnalysisLit)
                /\ \A k \in 1..Len(doc) :
                      doc[k] = "PRICE_SEC" =>
                          /\ ~Contains(item.suggestion, Body("P", k))
                          /\ ~Contains(item.reasoning, Body("P", k))

(***************************************************************************)
(* C7                                                                      *)
(***************************************************************************)
\* C7: the suggestion of a block is the trimmed body after its Suggestion
\* heading up to the next level-4 heading of any name or the block end: no
\* level-4 heading shows in a suggestion.
C7_SuggestionEndsAtNextLevel4 ==
    (Extracted /\ IsRecsDoc(doc)) =>
        \A n \in 1..Len(analysis.recommendations) :
            ~Contains(analysis.recommendations[n].suggestion, Hash4)

(***************************************************************************)
(* C8                                                                      *)
(***************************************************************************)
Occurrences(d, p) == Cardinality({ k \in 1..Len(d) : d[k] = p })

\* C8: when a level-2 heading occurs more than once, the field is the
\* trimmed body of the first such section, with nothing of the later ones.
\* (Documents without deeper headings, so that only the repetition is at
\* stake.)
C8_FirstOccurrenceOnly ==
    (Extracted /\ IsSectionsDoc(doc) /\ \A k \in 1..Len(doc) : doc[k] # "SUB") =>
        /\ Occurrences(doc, "OA") >= 2 =>
              analysis.overall_assessment = SectionBody(doc, "OA")
        /\ Occurrences(doc, "PA") >= 2 =>
              analysis.price_analysis = SectionBody(doc, "PA")

(***************************************************************************)
(* C9                                                                      *)
(***************************************************************************)
\* s[i..j+1] is a well-formed span: "**", a non-empty text without
\* asterisks, "**"
WellFormedSpan(s, i, j) ==
    /\ MatchLit(s, i, Star2)
    /\ j > i + 2
    /\ MatchLit(s, j, Star2)
    /\ \A k \in (i + 2)..(j - 1) : s[k] # "*"

SpanStarts(s) == { i \in 1..Len(s) : \E j \in 1..Len(s) : WellFormedSpan(s, i, j) }

\* s with every well-formed span, leftmost first, replaced by a strong
\* wrapping of its inner text and every other character kept in order
RECURSIVE Emphasized(_)
Emphasized(s) ==
    IF SpanStarts(s) = {} THEN s
    ELSE LET i == Least(SpanStarts(s))
             j == CHOOSE j \in 1..Len(s) : WellFormedSpan(s, i, j)
         IN  Slice(s, 1, i - 1) \o StrongOpen \o Slice(s, i + 2, j - 1) \o StrongClose
             \o Emphasized(Slice(s, j + 2, Len(s)))

ParagraphCount(h) == Cardinality({ i \in 1..Len(h) : MatchLit(h, i, POpen) })

IsSingleLine(s) == s # << >> /\ \A k \in 1..Len(s) : s[k] # NL

\* h is exactly one paragraph holding s with its spans emphasized
IsParagraphOf(h, s) ==
    /\ h = POpen \o Emphasized(s) \o PClose
    /\ ParagraphCount(h) = 1

BoldExampleHtml == <<"<", "p", ">", "<", "s", "t", "r", "o", "n", "g", ">", "B", "o", "l", "d", "<", "/", "s", "t", "r", "o", "n", "g", ">", " ", "a", "n", "d", " ", "p", "l", "a", "i", "n", "<", "/", "p", ">">>

\* C9 as stated: the empty string gives the empty string, and a non-empty
\* single-line fragment that does not start with an asterisk gives exactly
\* one paragraph holding the fragment, every well-formed span emphasized
\* and every other character kept.
C9_SingleLineKeepsEveryCharacter ==
    Formatted =>
        /\ rawText = << >> => html = << >>
        /\ (IsSingleLine(rawText) /\ Head(rawText) # "*") => IsParagraphOf(html, rawText)

\* C9, amended: the empty string gives the empty string; a non-empty
\* single-line fragment that, once its surrounding whitespace is trimmed,
\* does not start with an asterisk gives exactly one paragraph holding the
\* trimmed fragment, every well-formed span emphasized and every other
\* character of the trimmed fragment kept in order; "**Bold** and plain"
\* gives one paragraph of strong("Bold") followed by " and plain".
C9_SingleLineTrimmedParagraph ==
    Formatted =>
        /\ rawText = << >> => html = << >>
        /\ (IsSingleLine(rawText) /\ (Trim(rawText) = << >> \/ Head(Trim(rawText)) # "*"))
              => IsParagraphOf(html, Trim(rawText))
        /\ rawText = BoldExample => html = BoldExampleHtml

\* a single-line fragment with a well-formed span, text around it and
\* whitespace at its ends has been formatted
C9_Witness ==
    /\ Formatted
    /\ rawText = << " ", "a", "*", "*", "a", "*", "*" >>
    /\ html = POpen \o << "a" >> \o StrongOpen \o << "a" >> \o StrongClose \o PClose

(***************************************************************************)
(* C10                                                                     *)
(***************************************************************************)
BulletExampleHtml == <<"<", "p", ">", "I", "n", "t", "r", "o", " ", "l", "i", "n", "e", "<", "/", "p", ">", "<", "p", ">", "F", "i", "r", "s", "t", " ", "b", "u", "l", "l", "e", "t", "<", "/", "p", ">", "<", "p", ">", "S", "e", "c", "o", "n", "d", " ", "b", "u", "l", "l", "e", "t", "<", "/", "p", ">">>

\* C10 as stated: "Intro line\n* First bullet\n* Second bullet" gives
\* exactly 2 paragraphs.
C10_IntroAndBulletsTwoParagraphs ==
    (Formatted /\ rawText = BulletExample) => ParagraphCount(html) = 2

\* C10, amended: "Intro line\n* First bullet\n* Second bullet" gives exactly
\* 3 paragraphs, the intro line and one per bullet line, in the original
\* order, the bullet marker and the whitespace after it removed.
C10_IntroAndBulletsThreeParagraphs ==
    (Formatted /\ rawText = BulletExample) =>
        /\ ParagraphCount(html) = 3
        /\ html = BulletExampleHtml

\* the example has been formatted into three paragraphs
C10_Witness ==
    /\ Formatted
    /\ rawText = BulletExample
    /\ ParagraphCount(html) = 3

(***************************************************************************)
(* C11                                                                     *)
(***************************************************************************)
\* every asterisk of s stands next to another asterisk: s has double-asterisk
\* markers only, no single bullet marker
OnlyDoubleMarkers(s) ==
    \A k \in 1..Len(s) :
        s[k] = "*" => \/ (k > 1 /\ s[k - 1] = "*")
                      \/ (k < Len(s) /\ s[k + 1] = "*")

CountOf(c, s) == Cardinality({ k \in 1..Len(s) : s[k] = c })

\* C11: double-asterisk markers that form no well-formed span are left in
\* the output as the same literal characters wherever they stand, the start
\* of the fragment or of a line included: a fragment whose asterisks are
\* all double markers and which has no well-formed span keeps every one of
\* its asterisks.
C11_MalformedMarkersKept ==
    (Formatted /\ OnlyDoubleMarkers(rawText) /\ SpanStarts(rawText) = {})
        => CountOf("*", html) = CountOf("*", rawText)

(***************************************************************************)
(* C12                                                                     *)
(***************************************************************************)
HasNoAsterisk(s) == CountOf("*", s) = 0

\* C12 as stated: on a text without asterisks, formatting the Formatter's
\* output gives the same result as formatting once.
C12_IdempotentWithoutAsterisks ==
    (Formatted /\ HasNoAsterisk(rawText))
        => formatAIResponseWithAsterisks(html) = html

\* C12, amended: on a text without asterisks the Formatter is idempotent
\* on the empty text only; for a non-empty text the output is one
\* paragraph, and formatting that output wraps it in one more paragraph.
C12_SecondPassWrapsAgain ==
    (Formatted /\ HasNoAsterisk(rawText)) =>
        /\ rawText = << >> => formatAIResponseWithAsterisks(html) = html
        /\ rawText # << >> =>
              /\ html = POpen \o ReplaceNewlines(Trim(rawText)) \o PClose
              /\ formatAIResponseWithAsterisks(html) = POpen \o html \o PClose

\* a two-line text without asterisks has been formatted, and a second
\* pass puts a second paragraph around the first
C12_Witness ==
    /\ Formatted
    /\ rawText = << "a", NL, "a" >>
    /\ html = POpen \o << "a" >> \o Br \o << "a" >> \o PClose
    /\ formatAIResponseWithAsterisks(html) = POpen \o POpen \o << "a" >> \o Br \o << "a" >> \o PClose \o PClose

(***************************************************************************)
(* C16                                                                     *)
(***************************************************************************)
\* s with its markup characters replaced by a letter: the same words,
\* markers, whitespace and lines, and no markup of its own
RECURSIVE Neutral(_)
Neutral(s) ==
    IF s = << >> THEN << >>
    ELSE << IF Head(s) \in {"<", ">"} THEN "a" ELSE Head(s) >> \o Neutral(Tail(s))

\* C16: the only markup elements of the output are the paragraph, strong
\* and line-break elements the Formatter emits: the output has as many
\* "<" and ">" as the Formatter emits for the same fragment without
\* markup characters, so none of the fragment's own reach the output.
C16_OnlyOwnMarkup ==
    Formatted =>
        /\ CountOf("<", html) = CountOf("<", formatAIResponseWithAsterisks(Neutral(rawText)))
        /\ CountOf(">", html) = CountOf(">", formatAIResponseWithAsterisks(Neutral(rawText)))

(***************************************************************************)
(* C13                                                                     *)
(***************************************************************************)
Actions == {"analyze"} \cup DerivedActions

Outstanding(a) == { r \in requests : r.button.action = a }

\* C13: at every moment of every interleaving of clicks and completions,
\* each of the four actions has at most one generation request that has
\* not completed.
C13_OneOutstandingPerAction ==
    \A a \in Actions : Cardinality(Outstanding(a)) <= 1

(***************************************************************************)
(* C14                                                                     *)
(***************************************************************************)
\* the AnalysisDocument of a generated text and its sources
DocumentOf(content, sources) ==
    LET parsed == parseAnalysisFromText(content)
    IN  [overall_assessment |-> parsed.overall_assessment,
         price_analysis |-> parsed.price_analysis,
         recommendations |-> parsed.recommendations,
         suggested_keywords |-> parsed.suggested_keywords,
         sources |-> sources]

\* the document of each response of the generation service
Documents == [response \in Responses |-> DocumentOf(response.text, response.sources)]

\* the labels of the steps of the derived handlers
DerivedSteps == {"returned", "derived_issued", "derived_displayed", "derived_failed"}

CurrentIsLastBuilt ==
    currentAnalysis = IF lastAnalyze.id = 0 THEN NullAnalysis
                      ELSE Documents[[text |-> lastAnalyze.content,
                                      sources |-> lastAnalyze.sources]]

\* C14: the current analysis is always exactly the document built by the
\* most recent analyze action that returned text (null before the first),
\* and no step of the A/B, promo and FAQ handlers, succeeding or failing,
\* changes the current analysis or the original listing.
C14_CurrentAnalysisSuperseded ==
    /\ [] CurrentIsLastBuilt
    /\ [][pc' \in DerivedSteps => UNCHANGED <<currentAnalysis, originalListing>>]_vars

\* a second analyze action has replaced the analysis of the first, which
\* had sources, by one without, and a derived request has failed since
C14_Witness ==
    /\ lastAnalyze.id = 2
    /\ lastAnalyze.content = Render(GreatDoc)
    /\ currentAnalysis = [overall_assessment |-> GreatListing, price_analysis |-> << >>,
                          recommendations |-> << >>, suggested_keywords |-> << >>,
                          sources |-> << >>]
    /\ pc = "derived_failed"

(***************************************************************************)
(* C15                                                                     *)
(***************************************************************************)
\* the results area shows the message and nothing else
ShowsOnly(message) ==
    /\ resultsContainer.kind = "error"
    /\ resultsContainer.message = message
    /\ resultsContainer.extra = << >>

\* C15: when the request of an analyze action completes with no text, the
\* user sees the error message, the Extractor does not run, no further
\* request of that action is issued, and the current analysis keeps the
\* value it had.
C15_EmptyResultShownNotRetried ==
    /\ [](pc = "analyze_empty" => (ShowsOnly(EmptyResponseMessage) /\ Outstanding("analyze") = {}))
    /\ [][pc' = "analyze_empty" =>
            /\ UNCHANGED <<currentAnalysis, text, analysis, issued>>
            /\ requests' \subseteq requests]_vars

\* an analysis was displayed, and a later analyze action has just completed
\* with no text: the message is shown and the earlier analysis is still the
\* current one
C15_Witness ==
    /\ pc = "analyze_empty"
    /\ issued = 2
    /\ lastAnalyze.id = 1
    /\ currentAnalysis = Documents[[text |-> lastAnalyze.content, sources |-> lastAnalyze.sources]]
    /\ ShowsOnly(EmptyResponseMessage)

(***************************************************************************)
(* C17                                                                     *)
(***************************************************************************)
\* the buttons whose request has not completed
Awaited == { r.button : r \in requests }

\* C17: a control is disabled exactly while the request issued by its
\* click has not completed, whatever the completion is; when every request
\* completes in the end, a disabled control is enabled again in the end;
\* an analyze click with an empty or blank listing issues no request and
\* disables nothing.
C17_DisabledWhileOutstanding ==
    /\ [](disabledButtons = Awaited)
    /\ \A b \in Buttons : (b \in disabledButtons) ~> (b \notin disabledButtons)
    /\ [][pc' = "no_listing" => UNCHANGED <<requests, disabledButtons, issued, derivedIssued>>]_vars

\* the promo request has completed and its button, now hidden, is enabled
\* again, while the A/B request of the same results is outstanding and its
\* button disabled
C17_Witness ==
    /\ pc = "derived_displayed"
    /\ resultsContainer.kind = "results"
    /\ "promo" \in resultsContainer.hidden
    /\ DerivedBtn("promo", resultsContainer.render) \notin disabledButtons
    /\ DerivedBtn("ab", resultsContainer.render) \in disabledButtons
    /\ Outstanding("ab") # {}

(***************************************************************************)
(* C18                                                                     *)
(***************************************************************************)
\* C18: whenever derived content is shown in the results area, it was
\* generated from the analysis that is the current one at that moment:
\* every section of #extra-tools-results comes from a request issued under
\* the analysis of the most recent analyze action that returned text.
C18_DerivedContentOfCurrentAnalysis ==
    \A k \in 1..Len(resultsContainer.extra) :
        resultsContainer.extra[k].from = lastAnalyze.id

(***************************************************************************)
(* C19                                                                     *)
(***************************************************************************)
Mug == << "m", "u", "g" >>
Sign == << "s", "i", "g", "n" >>

\* C19: in every reachable state in which a derived-action button is in
\* the document and can be clicked, the current analysis is not null and
\* is the document of the most recent analyze action that returned text,
\* and the original listing is the non-empty, trimmed listing text that
\* action was started with; so no derived handler ever takes its early
\* return.
C19_ClickableMeansMatchingListing ==
    /\ \A a \in DerivedActions :
          Clickable(a) =>
              /\ currentAnalysis # NullAnalysis
              /\ CurrentIsLastBuilt
              /\ originalListing \notin { NullListing, << >> }
              /\ originalListing = Trim(originalListing)
              /\ originalListing = lastAnalyze.listing
              /\ \E value \in ListingInputs : originalListing = Trim(value)
    /\ pc # "returned"

\* the analysis of a second analyze action, started with " mug ", is
\* displayed and its A/B button can be clicked, while a derived request
\* issued under the first analysis, of the listing "sign", is outstanding
C19_Witness ==
    /\ Clickable("ab")
    /\ lastAnalyze.id = 2
    /\ lastAnalyze.listing = Mug
    /\ originalListing = Mug
    /\ \E r \in requests : r.from = 1 /\ r.listing = Sign

(***************************************************************************)
(* C20                                                                     *)
(***************************************************************************)
NoneClickable == \A a \in DerivedActions : ~Clickable(a)

\* C20: when a derived request fails, rejected or with a response that is
\* not parsable, the handler catches the failure and runs to its end, the
\* results area holds the error message of its action and nothing else, no
\* derived button is left, and the current analysis and the original
\* listing keep their values; the results area with its buttons comes back
\* only by an analyze action that succeeds, and no derived request is
\* issued before.
C20_DerivedFailureShowsOnlyError ==
    /\ [](pc = "derived_failed" =>
            /\ \E a \in DerivedActions : ShowsOnly(DerivedErrorMessage(a))
            /\ NoneClickable)
    /\ [][pc' = "derived_failed" =>
            /\ UNCHANGED <<currentAnalysis, originalListing>>
            /\ requests' \subseteq requests
            /\ requests' # requests
            /\ disabledButtons' = { r.button : r \in requests' }]_vars
    /\ [][resultsContainer.kind # "results" =>
            /\ resultsContainer'.kind = "results" => pc' = "analyze_displayed"
            /\ pc' # "derived_issued"]_vars

\* the promo request of the first analysis has failed: the results area
\* shows the promo error only, and the analysis and the listing are kept
C20_Witness ==
    /\ pc = "derived_failed"
    /\ ShowsOnly(PromoErrorMessage)
    /\ NoneClickable
    /\ issued = 1
    /\ currentAnalysis = Documents[[text |-> Render(PromptDoc), sources |-> << WebSource1 >>]]
    /\ originalListing = Sign

=============================================================================
